---- MODULE Spec2Model ----
(***************************************************************************)
(* Positional inverted index, boolean/proximity query evaluator and the    *)
(* tokenizers they rest on (src/src/preprocessing.py, src/src/index.py,    *)
(* src/src/boolean_query.py).  Text is a sequence of one-character         *)
(* strings, so that both tokenizers are modelled on characters.            *)
(***************************************************************************)
EXTENDS Integers, Sequences, FiniteSets, TLC

(***************************************************************************)
(* Bounds of the model.                                                    *)
(***************************************************************************)
\* documents an index may hold (sum over build calls)
MaxDocs == 2
\* text items (words and sentence marks) fed to the index over all documents
MaxTokens == 3
\* document ids are drawn from 1..MaxId
MaxId == 2
\* build calls on one index instance
MaxBuilds == 2
\* largest distance n used in a /n query
MaxDist == 2

(***************************************************************************)
(* Characters.                                                             *)
(***************************************************************************)
LowerSeq ==
  <<"a","b","c","d","e","f","g","h","i","j","k","l","m",
    "n","o","p","q","r","s","t","u","v","w","x","y","z">>

UpperSeq ==
  <<"A","B","C","D","E","F","G","H","I","J","K","L","M",
    "N","O","P","Q","R","S","T","U","V","W","X","Y","Z">>

DigitSeq == <<"0","1","2","3","4","5","6","7","8","9">>

Range(s) == {s[i] : i \in DOMAIN s}

LowerCh == Range(LowerSeq)
UpperCh == Range(UpperSeq)
DigitCh == Range(DigitSeq)
Whitespace == {" ", "\t", "\n", "\r"}

\* str.lower() on one character
LowerChar(c) ==
  IF c \in UpperCh
  THEN LowerSeq[CHOOSE i \in DOMAIN UpperSeq : UpperSeq[i] = c]
  ELSE c

\* str.upper() on one character
UpperChar(c) ==
  IF c \in LowerCh
  THEN UpperSeq[CHOOSE i \in DOMAIN LowerSeq : LowerSeq[i] = c]
  ELSE c

\* str.lower()
lower(s) == [i \in DOMAIN s |-> LowerChar(s[i])]

\* str.upper()
upper(s) == [i \in DOMAIN s |-> UpperChar(s[i])]

\* s[i..j] (1-based, inclusive); empty when j < i
Slice(s, i, j) == SubSeq(s, i, j)

RECURSIVE Concat(_)
\* concatenation of a sequence of sequences
Concat(ss) == IF ss = <<>> THEN <<>> ELSE Head(ss) \o Concat(Tail(ss))

\* last index k >= i such that s[i..k] lies in the class cls (s[i] is in cls)
RECURSIVE RunEnd(_, _, _)
RunEnd(s, i, cls) ==
  IF i + 1 <= Len(s) /\ s[i + 1] \in cls THEN RunEnd(s, i + 1, cls) ELSE i

(***************************************************************************)
(* src/src/preprocessing.py                                                *)
(***************************************************************************)
STOPWORDS == {
    <<"t","h","e">>, <<"a">>, <<"a","n">>, <<"a","n","d">>, <<"o","r">>,
    <<"b","u","t">>, <<"o","f">>, <<"t","o">>, <<"i","n">>, <<"f","o","r">>,
    <<"o","n">>, <<"a","t">>, <<"b","y">>, <<"w","i","t","h">>, <<"a","s">>,
    <<"i","s">>, <<"w","a","s">>, <<"w","e","r","e">>, <<"b","e">>,
    <<"b","e","e","n">>, <<"b","e","i","n","g">>, <<"f","r","o","m">>,
    <<"t","h","a","t">>, <<"t","h","i","s">>, <<"i","t">>, <<"i","t","s">>,
    <<"i","n","t","o">>, <<"o","v","e","r">>, <<"a","f","t","e","r">>,
    <<"b","e","f","o","r","e">>, <<"t","h","a","n">>, <<"t","h","e","n">>,
    <<"s","o">>, <<"s","u","c","h">> }

\* the character class [a-z0-9] under re.IGNORECASE
TokenCh == LowerCh \cup UpperCh \cup DigitCh

\* the characters after which _SENT_SPLIT breaks: (?<=[.!?])
SentEndCh == {".", "!", "?"}

\* str.strip(): leading and trailing whitespace removed
RECURSIVE LStrip(_)
LStrip(s) ==
  IF s # <<>> /\ Head(s) \in Whitespace THEN LStrip(Tail(s)) ELSE s

RECURSIVE RStrip(_)
RStrip(s) ==
  IF s # <<>> /\ s[Len(s)] \in Whitespace
  THEN RStrip(SubSeq(s, 1, Len(s) - 1)) ELSE s

strip(s) == LStrip(RStrip(s))

\* last index k >= i such that no character of s[i+1..k] lies in cls
RECURSIVE RunEndNot(_, _, _)
RunEndNot(s, i, cls) ==
  IF i + 1 <= Len(s) /\ s[i + 1] \notin cls THEN RunEndNot(s, i + 1, cls) ELSE i

\* _SENT_SPLIT.split(text): break at every whitespace run that directly
\* follows one of . ! ?  (i scans, start is where the current piece began;
\* a break begins at a whitespace character, so the scan goes on at the
\* next one)
RECURSIVE SentSplitFrom(_, _, _)
SentSplitFrom(text, i, start) ==
  IF i > Len(text) THEN << Slice(text, start, Len(text)) >>
  ELSE IF text[i] \in Whitespace /\ i > 1 /\ text[i - 1] \in SentEndCh
       THEN LET j == RunEnd(text, i, Whitespace)
            IN  << Slice(text, start, i - 1) >>
                  \o SentSplitFrom(text, j + 1, j + 1)
       ELSE SentSplitFrom(text, RunEndNot(text, i, Whitespace) + 1, start)

_SENT_SPLIT(text) == SentSplitFrom(text, 1, 1)

sent_tokenize(text) ==
  LET t == strip(text) IN IF t = <<>> THEN <<>> ELSE _SENT_SPLIT(t)

\* _TOKEN.findall(text): [a-z0-9]+(?:['-][a-z0-9]+)? , leftmost, greedy
RECURSIVE TokenFindAll(_, _)
TokenFindAll(text, i) ==
  IF i > Len(text) THEN <<>>
  ELSE IF text[i] \in TokenCh
       THEN LET j == RunEnd(text, i, TokenCh)
                k == IF j + 2 <= Len(text) /\ text[j + 1] \in {"'", "-"}
                        /\ text[j + 2] \in TokenCh
                     THEN RunEnd(text, j + 2, TokenCh)
                     ELSE j
            IN  << Slice(text, i, k) >> \o TokenFindAll(text, k + 1)
       ELSE TokenFindAll(text, i + 1)

word_tokenize(text) ==
  LET toks == TokenFindAll(text, 1) IN [i \in DOMAIN toks |-> lower(toks[i])]

\* a filter that keeps the stopwords
RemoveStopwords_Keep(toks) == toks

\* [t for t in toks if t not in stopwords]
RemoveStopwords(toks) == SelectSeq(toks, LAMBDA t : t \notin STOPWORDS)

\* preprocess(text) -> <<flat_tokens, sent_tokens>>
preprocess(text) ==
  LET sents == sent_tokenize(text) IN
  IF sents = <<>>
  THEN LET toks == RemoveStopwords(word_tokenize(text))
       IN  << toks, << toks >> >>
  ELSE LET sent_tokens ==
             [i \in DOMAIN sents |-> RemoveStopwords(word_tokenize(sents[i]))]
       IN  << Concat(sent_tokens), sent_tokens >>

(***************************************************************************)
(* src/src/index.py                                                        *)
(***************************************************************************)
VARIABLES
  postings,         \* InvertedIndex.postings: term -> list of <<doc_id, positions>>
  doc_len,          \* InvertedIndex.doc_len: doc_id -> number of retained tokens
  num_docs,         \* InvertedIndex.num_docs
  sent_boundaries,  \* InvertedIndex._sent_boundaries: doc_id -> list of <<start, end>>
  builds,           \* number of build calls made on this instance
  bm25,             \* the BM25 object: N, _df, _avgdl as cached by __init__
  call,             \* the last operation called and its arguments
  ret               \* what that operation returned, or that it raised

vars == << postings, doc_len, num_docs, sent_boundaries, builds, bm25, call, ret >>

\* the empty dict
EmptyMap == [k \in {} |-> <<>>]

\* a dict that keeps the value a key already has
Put_KeepFirst(d, k, v) ==
  [x \in (DOMAIN d) \cup {k} |-> IF x \in DOMAIN d THEN d[x] ELSE v]

\* d[k] = v on a dict
Put(d, k, v) == [x \in (DOMAIN d) \cup {k} |-> IF x = k THEN v ELSE d[x]]

\* boundaries whose end is one past the last position of the sentence
RECURSIVE Boundaries_EndPast(_, _)
Boundaries_EndPast(sent_tokens, pos_cursor) ==
  IF sent_tokens = <<>> THEN <<>>
  ELSE LET s == Head(sent_tokens)
       IN  << << pos_cursor, pos_cursor + Len(s) >> >>
             \o Boundaries_EndPast(Tail(sent_tokens), pos_cursor + Len(s))

\* boundaries of one document from its per-sentence tokens
RECURSIVE Boundaries(_, _)
Boundaries(sent_tokens, pos_cursor) ==
  IF sent_tokens = <<>> THEN <<>>
  ELSE LET s == Head(sent_tokens)
       IN  << << pos_cursor, pos_cursor + Len(s) - 1 >> >>
             \o Boundaries(Tail(sent_tokens), pos_cursor + Len(s))

\* positions counted from 1
PositionsOf_OneBased(flat, tok) ==
  SelectSeq([i \in DOMAIN flat |-> i], LAMBDA i : flat[i] = tok)

\* positions_by_term[tok]: the positions (0-based) of tok in flat, ascending
PositionsOf(flat, tok) ==
  LET idx == SelectSeq([i \in DOMAIN flat |-> i], LAMBDA i : flat[i] = tok)
  IN  [k \in DOMAIN idx |-> idx[k] - 1]

\* self.postings[term].append((doc_id, pos_list)) for every term of the doc
AppendPostings(p, doc_id, flat) ==
  [term \in (DOMAIN p) \cup Range(flat) |->
     LET old == IF term \in DOMAIN p THEN p[term] ELSE <<>>
     IN  IF term \in Range(flat)
         THEN Append(old, << doc_id, PositionsOf(flat, term) >>)
         ELSE old]

\* the body of the loop of build for one document
IndexDoc(idx, doc) ==
  LET doc_id == doc[1]
      pp     == preprocess(doc[2])
      flat   == pp[1]
  IN  [ postings        |-> AppendPostings(idx.postings, doc_id, flat),
        doc_len         |-> Put(idx.doc_len, doc_id, Len(flat)),
        num_docs        |-> idx.num_docs + 1,
        sent_boundaries |-> Put(idx.sent_boundaries, doc_id,
                                Boundaries(pp[2], 0)) ]

RECURSIVE IndexDocs(_, _)
IndexDocs(idx, docs) ==
  IF docs = <<>> THEN idx ELSE IndexDocs(IndexDoc(idx, Head(docs)), Tail(docs))

\* insertion of one posting behind every posting whose doc id is not larger
RECURSIVE InsertByDoc(_, _)
InsertByDoc(sorted, x) ==
  IF sorted = <<>> THEN << x >>
  ELSE IF sorted[Len(sorted)][1] <= x[1] THEN Append(sorted, x)
       ELSE Append(InsertByDoc(SubSeq(sorted, 1, Len(sorted) - 1), x),
                   sorted[Len(sorted)])

\* list.sort(key=lambda x: x[0]): stable, ascending doc id
RECURSIVE SortByDoc(_)
SortByDoc(pl) ==
  IF pl = <<>> THEN <<>>
  ELSE InsertByDoc(SortByDoc(SubSeq(pl, 1, Len(pl) - 1)), pl[Len(pl)])

\* build without the closing sort of the posting lists
build_NoSort(idx, docs) == IndexDocs(idx, docs)

\* InvertedIndex.build(docs) on the index idx
build(idx, docs) ==
  LET after == IndexDocs(idx, docs)
  IN  [after EXCEPT !.postings =
         [term \in DOMAIN after.postings |-> SortByDoc(after.postings[term])]]

\* InvertedIndex(): the index no document was fed to
Fresh ==
  [ postings |-> EmptyMap, doc_len |-> EmptyMap, num_docs |-> 0,
    sent_boundaries |-> EmptyMap ]

\* the index object as a record
Index ==
  [ postings |-> postings, doc_len |-> doc_len, num_docs |-> num_docs,
    sent_boundaries |-> sent_boundaries ]

\* what a call returns: a value, or an exception
Returned(v) == [raised |-> FALSE, val |-> v]
Raised == [raised |-> TRUE, val |-> <<>>]

\* no call is in progress: the caller is between two operations
NoCall == [op |-> "none", arg |-> <<>>]

\* no BM25 object has been made
NoBM25 == [made |-> FALSE, N |-> 0, df |-> EmptyMap, sumdl |-> 0]

\* InvertedIndex.__init__
Init ==
  /\ bm25 = NoBM25
  /\ postings = EmptyMap
  /\ doc_len = EmptyMap
  /\ num_docs = 0
  /\ sent_boundaries = EmptyMap
  /\ builds = 0
  /\ call = NoCall
  /\ ret = Returned(<<>>)

(***************************************************************************)
(* Reads of the index (src/src/index.py).                                  *)
(***************************************************************************)
\* dict.get(k, []) : the value, or the empty list for a missing key
Get(d, k) == IF k \in DOMAIN d THEN d[k] ELSE <<>>

\* InvertedIndex.get_postings(term): the value returned
get_postings(idx, term) == Get(idx.postings, term)

\* the postings map after self.postings[term]: a defaultdict makes the key
postings_after_get_Insert(p, term) ==
  IF term \in DOMAIN p THEN p ELSE Put(p, term, <<>>)

\* the postings map as the call get_postings(term) leaves it
postings_after_get(p, term) == p

\* InvertedIndex.sentence_boundaries(doc_id): the value returned
sentence_boundaries(idx, doc_id) == Get(idx.sent_boundaries, doc_id)

\* the boundaries map as the call sentence_boundaries(doc_id) leaves it
boundaries_after_get(sb, doc_id) == sb

(***************************************************************************)
(* src/src/boolean_query.py                                                *)
(***************************************************************************)
\* the character class [a-z0-9\-] under re.IGNORECASE
TermCh == LowerCh \cup UpperCh \cup DigitCh \cup {"-"}

\* s has the literal lit at index i (compared as re.IGNORECASE does)
HasAt(s, i, lit) ==
  /\ i + Len(lit) - 1 <= Len(s)
  /\ \A k \in 1..Len(lit) : LowerChar(s[i + k - 1]) = lit[k]

\* index of the first double quote behind index i, 0 when there is none
RECURSIVE NextQuote(_, _)
NextQuote(s, i) ==
  IF i + 1 > Len(s) THEN 0
  ELSE IF s[i + 1] = "\"" THEN i + 1 ELSE NextQuote(s, i + 1)

\* the end of the match of TOK that starts at index i, 0 when TOK does not
\* match there; the alternatives are tried in the order of the pattern
TOKMatchEnd(s, i) ==
  IF s[i] = "\"" /\ NextQuote(s, i) >= i + 2 THEN NextQuote(s, i)
  ELSE IF s[i] = "(" THEN i
  ELSE IF s[i] = ")" THEN i
  ELSE IF HasAt(s, i, <<"/","s">>) THEN i + 1
  ELSE IF HasAt(s, i, <<"/","p">>) THEN i + 1
  ELSE IF s[i] = "/" /\ i + 1 <= Len(s) /\ s[i + 1] \in DigitCh
       THEN RunEnd(s, i + 1, DigitCh)
  ELSE IF HasAt(s, i, <<"a","n","d">>) THEN i + 2
  ELSE IF HasAt(s, i, <<"o","r">>) THEN i + 1
  ELSE IF HasAt(s, i, <<"n","o","t">>) THEN i + 2
  ELSE IF s[i] \in TermCh THEN RunEnd(s, i, TermCh)
  ELSE 0

\* TOK.findall(s)
RECURSIVE TOKFindAll(_, _)
TOKFindAll(s, i) ==
  IF i > Len(s) THEN <<>>
  ELSE LET k == TOKMatchEnd(s, i)
       IN  IF k = 0 THEN TOKFindAll(s, i + 1)
           ELSE << Slice(s, i, k) >> \o TOKFindAll(s, k + 1)

tokenize_query(q) == TOKFindAll(lower(q), 1)

_postings_to_docs(pl) == {pl[i][1] : i \in DOMAIN pl}

_merge_and(a, b) == a \cap b

\* the union taken as an intersection
_merge_or_Intersect(a, b) == a \cap b

_merge_or(a, b) == a \cup b

\* the difference taken the other way round
_merge_not_Swapped(a, b) == b \ a

_merge_not(a, b) == a \ b

\* by_doc[doc_id] of _phrase_match: the position lists appended for doc_id,
\* one per posting that carries doc_id, in the order of the terms
RECURSIVE PostingsOfDoc(_, _)
PostingsOfDoc(pl, doc_id) ==
  IF pl = <<>> THEN <<>>
  ELSE (IF Head(pl)[1] = doc_id THEN << Head(pl)[2] >> ELSE <<>>)
         \o PostingsOfDoc(Tail(pl), doc_id)

RECURSIVE by_doc(_, _)
by_doc(postings_lists, doc_id) ==
  IF postings_lists = <<>> THEN <<>>
  ELSE PostingsOfDoc(Head(postings_lists), doc_id)
         \o by_doc(Tail(postings_lists), doc_id)

\* the same loop with the offset stuck at 1: every later term is looked for
\* right behind the first one
RECURSIVE NarrowPhrase_OffsetOne(_, _, _)
NarrowPhrase_OffsetOne(s, pos_lists, i) ==
  IF i + 1 > Len(pos_lists) \/ s = {} THEN s
  ELSE NarrowPhrase_OffsetOne({p \in s : (p + 1) \in Range(pos_lists[i + 1])},
                              pos_lists, i + 1)

\* the loop "for i, pl in enumerate(others, start=1)": s narrowed by others[i..]
RECURSIVE NarrowPhrase(_, _, _)
NarrowPhrase(s, pos_lists, i) ==
  IF i + 1 > Len(pos_lists) \/ s = {} THEN s
  ELSE NarrowPhrase({p \in s : (p + i) \in Range(pos_lists[i + 1])},
                    pos_lists, i + 1)

_phrase_match(idx, terms) ==
  IF terms = <<>> THEN {}
  ELSE LET postings_lists == [i \in DOMAIN terms |-> get_postings(idx, terms[i])]
       IN  IF \E i \in DOMAIN postings_lists : Len(postings_lists[i]) = 0
           THEN {}
           ELSE { d \in UNION {_postings_to_docs(postings_lists[i]) :
                                  i \in DOMAIN postings_lists} :
                    LET pos_lists == by_doc(postings_lists, d)
                    IN  /\ Len(pos_lists) = Len(terms)
                        /\ NarrowPhrase(Range(pos_lists[1]), pos_lists, 1) # {} }

\* {d: set(p) for d, p in A}[d]: the positions of the last posting of d
PosOf(A, d) ==
  LET last == CHOOSE i \in DOMAIN A :
                 A[i][1] = d /\ \A j \in DOMAIN A : A[j][1] = d => j <= i
  IN  Range(A[last][2])

Abs(x) == IF x < 0 THEN -x ELSE x

\* _within_n without abs(): b may stand any distance behind a
_within_n_OneSided(idx, a_term, b_term, n) ==
  LET A == get_postings(idx, a_term)
      B == get_postings(idx, b_term)
      cand == _postings_to_docs(A) \cap _postings_to_docs(B)
  IN  { d \in cand :
          \E x \in PosOf(A, d) : \E y \in PosOf(B, d) : x - y <= n }

_within_n(idx, a_term, b_term, n) ==
  LET A == get_postings(idx, a_term)
      B == get_postings(idx, b_term)
      cand == _postings_to_docs(A) \cap _postings_to_docs(B)
  IN  { d \in cand :
          \E x \in PosOf(A, d) : \E y \in PosOf(B, d) : Abs(x - y) <= n }

\* _same_sentence with the end of a boundary taken as exclusive
_same_sentence_OpenEnd(idx, a_term, b_term) ==
  LET A == get_postings(idx, a_term)
      B == get_postings(idx, b_term)
      docs == _postings_to_docs(A) \cap _postings_to_docs(B)
  IN  { d \in docs :
          LET boundaries == sentence_boundaries(idx, d)
          IN  \E k \in DOMAIN boundaries :
                /\ \E x \in PosOf(A, d) :
                     boundaries[k][1] <= x /\ x < boundaries[k][2]
                /\ \E y \in PosOf(B, d) :
                     boundaries[k][1] <= y /\ y < boundaries[k][2] }

_same_sentence(idx, a_term, b_term) ==
  LET A == get_postings(idx, a_term)
      B == get_postings(idx, b_term)
      docs == _postings_to_docs(A) \cap _postings_to_docs(B)
  IN  { d \in docs :
          LET boundaries == sentence_boundaries(idx, d)
          IN  \E k \in DOMAIN boundaries :
                /\ \E x \in PosOf(A, d) :
                     boundaries[k][1] <= x /\ x <= boundaries[k][2]
                /\ \E y \in PosOf(B, d) :
                     boundaries[k][1] <= y /\ y <= boundaries[k][2] }

\* the operator words as the shunting yard holds them
AND == <<"A","N","D">>
OR == <<"O","R">>
NOT == <<"N","O","T">>
LPAREN == <<"(">>
RPAREN == <<")">>

\* precedence with AND and OR on one level
precedence_Flat(tok) ==
  IF tok = NOT THEN 3 ELSE IF tok = AND THEN 1 ELSE IF tok = OR THEN 1 ELSE 0

precedence(tok) ==
  IF tok = NOT THEN 3 ELSE IF tok = AND THEN 2 ELSE IF tok = OR THEN 1 ELSE 0

\* an element of prox_tokens / output: a plain token or a packed triple
Plain(s) == [tup |-> FALSE, s |-> s, left |-> <<>>, op |-> <<>>, right |-> <<>>]
Triple(l, o, r) == [tup |-> TRUE, s |-> <<>>, left |-> l, op |-> o, right |-> r]

\* re.fullmatch(r'/[0-9]+|/s|/p', tok)
IsProxOp(tok) ==
  \/ tok = <<"/","s">>
  \/ tok = <<"/","p">>
  \/ /\ Len(tok) >= 2
     /\ tok[1] = "/"
     /\ \A k \in 2..Len(tok) : tok[k] \in DigitCh

\* the packing loop: tokens[i], tokens[i+1], tokens[i+2] become one triple
\* when tokens[i+1] is a proximity operator and tokens[i+2] exists
RECURSIVE PackProx(_, _)
PackProx(tokens, i) ==
  IF i > Len(tokens) THEN <<>>
  ELSE IF i + 2 <= Len(tokens) /\ IsProxOp(tokens[i + 1])
       THEN << Triple(tokens[i], tokens[i + 1], tokens[i + 2]) >>
              \o PackProx(tokens, i + 3)
       ELSE << Plain(tokens[i]) >> \o PackProx(tokens, i + 1)

\* "while stack and stack[-1] != '(' and <more>: output.append(stack.pop())"
\* on the pair <<output, stack>>; minprec = 0 pops down to the next '('
RECURSIVE PopWhile(_, _, _)
PopWhile(output, stack, minprec) ==
  IF stack # <<>> /\ stack[Len(stack)] # LPAREN
     /\ precedence(stack[Len(stack)]) >= minprec
  THEN PopWhile(Append(output, Plain(stack[Len(stack)])),
                SubSeq(stack, 1, Len(stack) - 1), minprec)
  ELSE << output, stack >>

\* "while stack: output.append(stack.pop())"
RECURSIVE Drain(_, _)
Drain(output, stack) ==
  IF stack = <<>> THEN output
  ELSE Drain(Append(output, Plain(stack[Len(stack)])),
             SubSeq(stack, 1, Len(stack) - 1))

\* one round of the shunting-yard loop, for the token t
ShuntStep(output, stack, t) ==
  IF t.tup THEN << Append(output, t), stack >>
  ELSE IF t.s = LPAREN THEN << output, Append(stack, t.s) >>
  ELSE IF t.s = RPAREN
       THEN LET r == PopWhile(output, stack, 0)
            IN  IF r[2] # <<>> /\ r[2][Len(r[2])] = LPAREN
                THEN << r[1], SubSeq(r[2], 1, Len(r[2]) - 1) >>
                ELSE r
  ELSE IF upper(t.s) \in {AND, OR, NOT}
       THEN LET r == PopWhile(output, stack, precedence(upper(t.s)))
            IN  << r[1], Append(r[2], upper(t.s)) >>
  ELSE << Append(output, t), stack >>

RECURSIVE Shunt(_, _, _)
Shunt(output, stack, prox_tokens) ==
  IF prox_tokens = <<>> THEN Drain(output, stack)
  ELSE LET r == ShuntStep(output, stack, Head(prox_tokens))
       IN  Shunt(r[1], r[2], Tail(prox_tokens))

\* the postfix form of the query
ShuntingYard(prox_tokens) == Shunt(<<>>, <<>>, prox_tokens)

\* str.strip('"')
RECURSIVE StripQuotes(_)
StripQuotes(s) ==
  IF s # <<>> /\ Head(s) = "\"" THEN StripQuotes(Tail(s))
  ELSE IF s # <<>> /\ s[Len(s)] = "\"" THEN StripQuotes(SubSeq(s, 1, Len(s) - 1))
  ELSE s

\* str.split(): the maximal runs of non-whitespace characters
RECURSIVE split(_)
split(s) ==
  IF s = <<>> THEN <<>>
  ELSE IF Head(s) \in Whitespace THEN split(Tail(s))
  ELSE LET k == RunEnd(s, 1, {c \in Range(s) : c \notin Whitespace})
       IN  << SubSeq(s, 1, k) >> \o split(SubSeq(s, k + 1, Len(s)))

\* int() of a string of decimal digits
RECURSIVE int(_)
int(ds) ==
  IF ds = <<>> THEN 0
  ELSE 10 * int(SubSeq(ds, 1, Len(ds) - 1))
         + (CHOOSE v \in 0..9 : DigitSeq[v + 1] = ds[Len(ds)])

\* the window that stands for a paragraph (/p)
ParagraphWindow == 50

to_docs(idx, operand) ==
  IF operand.tup
  THEN LET a == StripQuotes(operand.left)
           b == StripQuotes(operand.right)
       IN  IF operand.op = <<"/","s">> THEN _same_sentence(idx, a, b)
           ELSE IF operand.op = <<"/","p">>
                THEN _within_n(idx, a, b, ParagraphWindow)
           ELSE _within_n(idx, a, b, int(Tail(operand.op)))
  ELSE IF Head(operand.s) = "\"" /\ operand.s[Len(operand.s)] = "\""
       THEN _phrase_match(idx, split(StripQuotes(operand.s)))
  ELSE _postings_to_docs(get_postings(idx, operand.s))

\* the ids in descending order, as sorted(..., reverse=True) gives them
RECURSIVE sorted_Reverse(_)
sorted_Reverse(S) ==
  IF S = {} THEN <<>>
  ELSE LET m == CHOOSE m \in S : \A x \in S : m >= x
       IN  << m >> \o sorted_Reverse(S \ {m})

\* sorted(set of ints)
RECURSIVE sorted(_)
sorted(S) ==
  IF S = {} THEN <<>>
  ELSE LET m == CHOOSE m \in S : \A x \in S : m <= x
       IN  << m >> \o sorted(S \ {m})

\* the loop over the postfix form with stack2; list.pop() on an empty list
\* raises IndexError
RECURSIVE EvalRPN(_, _, _)
EvalRPN(idx, output, stack2) ==
  IF output = <<>>
  THEN Returned(IF stack2 # <<>> THEN sorted(stack2[Len(stack2)]) ELSE <<>>)
  ELSE LET t == Head(output)
           n == Len(stack2)
       IN  IF ~t.tup /\ t.s \in {AND, OR, NOT}
           THEN IF t.s = NOT
                THEN IF n = 0 THEN Raised
                     ELSE LET b == stack2[n]
                              a == IF n >= 2 THEN stack2[n - 1] ELSE {}
                              rest == SubSeq(stack2, 1, IF n >= 2 THEN n - 2 ELSE 0)
                          IN  EvalRPN(idx, Tail(output),
                                      Append(rest, _merge_not(a, b)))
                ELSE IF n < 2 THEN Raised
                     ELSE LET b == stack2[n]
                              a == stack2[n - 1]
                          IN  EvalRPN(idx, Tail(output),
                                Append(SubSeq(stack2, 1, n - 2),
                                       IF t.s = AND THEN _merge_and(a, b)
                                                    ELSE _merge_or(a, b)))
           ELSE EvalRPN(idx, Tail(output), Append(stack2, to_docs(idx, t)))

\* evaluate_query(index, q)
evaluate_query(idx, q) ==
  EvalRPN(idx, ShuntingYard(PackProx(tokenize_query(q), 1)), <<>>)

(***************************************************************************)
(* src/src/bm25.py                                                         *)
(* Scores are floats in the source.  Here idf is kept in millionths and a  *)
(* score is a record [nano, val, fine]: val is the score with the 1e-9 of  *)
(* dl / (avgdl + 1e-9) left out, in millionths, and fine is what the 1e-9  *)
(* adds to it, which decides between scores of equal val.  When _avgdl is  *)
(* 0.0 and dl is not, dl is divided by 1e-9: nano is TRUE, val is in       *)
(* millionths of a billionth and fine is what tf + k1 * (1 - b) takes off. *)
(***************************************************************************)
\* the default of the parameter stopwords of score_query
DEFAULT_STOPWORDS == STOPWORDS

\* k1 = 1.2, in tenths
k1_tenths == 12
\* b = 0.75, in quarters
b_quarters == 3

\* math.log(n) in millionths, for n = 1..40
LogTable ==
  << 0, 693147, 1098612, 1386294, 1609438, 1791759, 1945910, 2079442,
     2197225, 2302585, 2397895, 2484907, 2564949, 2639057, 2708050, 2772589,
     2833213, 2890372, 2944439, 2995732, 3044522, 3091042, 3135494, 3178054,
     3218876, 3258097, 3295837, 3332205, 3367296, 3401197, 3433987, 3465736,
     3496508, 3526361, 3555348, 3583519, 3610918, 3637586, 3663562, 3688879 >>

\* math.log(num / den) in millionths
log(num, den) == LogTable[num] - LogTable[den]

\* a * n / d rounded down, by parts
MulDiv(a, n, d) == (a \div d) * n + ((a % d) * n) \div d

\* sum(index.doc_len.values())
RECURSIVE SumValues(_, _)
SumValues(d, keys) ==
  IF keys = {} THEN 0
  ELSE LET k == CHOOSE k \in keys : TRUE
       IN  d[k] + SumValues(d, keys \ {k})

\* BM25.__init__(index): N, _df and _avgdl (as the sum it divides by N)
BM25(idx) ==
  [ made  |-> TRUE,
    N     |-> idx.num_docs,
    df    |-> [t \in DOMAIN idx.postings |-> Len(idx.postings[t])],
    sumdl |-> SumValues(idx.doc_len, DOMAIN idx.doc_len) ]

\* the idf without the + 1: log((N - df + 0.5) / (df + 0.5))
idf_Classic(bm, term) ==
  LET df == IF term \in DOMAIN bm.df THEN bm.df[term] ELSE 0
  IN  log(2 * bm.N - 2 * df + 1, 2 * df + 1)

\* BM25.idf(term): log((N - df + 0.5) / (df + 0.5) + 1), which is
\* log((2N + 2) / (2df + 1))
idf(bm, term) ==
  LET df == IF term \in DOMAIN bm.df THEN bm.df[term] ELSE 0
  IN  log(2 * bm.N + 2, 2 * df + 1)

\* self._avgdl is 0.0: no document, or only empty ones, when it was cached
AvgdlIsZero(bm) == bm.N = 0 \/ bm.sumdl = 0

\* dl / (self._avgdl + 1e-9) is of the order of 1e9
Nano(bm, dl) == AvgdlIsZero(bm) /\ dl > 0

\* idf * (tf * (k1 + 1)) / (tf + denom_norm), with
\* denom_norm = k1 * (1 - b + b * (dl / (avgdl + 1e-9)))
TermScore(bm, term, tf, dl) ==
  LET k == k1_tenths
      b == b_quarters
      s == IF AvgdlIsZero(bm) THEN 1 ELSE bm.sumdl
      n == IF AvgdlIsZero(bm) THEN 0 ELSE bm.N
      q == 40 * tf * s + k * ((4 - b) * s + b * dl * n)
      e == (k * b) \div 4
  IN  IF Nano(bm, dl)
      THEN [ val  |-> MulDiv(idf(bm, term), 4 * (k + 10) * tf, k * b * dl),
             fine |-> 0 - MulDiv(idf(bm, term),
                                 (k + 10) * tf * (10 * tf + (k * (4 - b)) \div 4),
                                 e * e * dl * dl) ]
      ELSE [ val  |-> MulDiv(idf(bm, term), 4 * (k + 10) * tf * s, q),
             fine |-> MulDiv(MulDiv(idf(bm, term),
                                    4 * (k + 10) * k * b * tf * dl * n, q),
                             4 * n, q) ]

\* q_terms: the words of the query text that are no stopwords
q_terms(query_text, stopwords) ==
  SelectSeq(word_tokenize(query_text), LAMBDA t : t \notin stopwords)

\* the value of candidate_docs when the caller passes none
None == [given |-> FALSE, docs |-> {}]
\* a candidate list
Candidates(docs) == [given |-> TRUE, docs |-> docs]

\* cand without the cut to candidate_docs
cand_IgnoreGiven(idx, terms, candidate_docs) ==
  UNION { _postings_to_docs(get_postings(idx, terms[i])) : i \in DOMAIN terms }

\* cand: the documents of the postings of the query terms, cut down to
\* candidate_docs when given
cand(idx, terms, candidate_docs) ==
  LET all == UNION { _postings_to_docs(get_postings(idx, terms[i])) :
                     i \in DOMAIN terms }
  IN  IF candidate_docs.given THEN all \cap candidate_docs.docs ELSE all

\* len(dict(self.index.postings[t])[d]) if d is a key, else 0: of several
\* postings of d the last one counts
tf_cache(idx, t, d) ==
  LET pl   == idx.postings[t]
      hits == { i \in DOMAIN pl : pl[i][1] = d }
  IN  IF hits = {} THEN 0
      ELSE Len(pl[CHOOSE i \in hits : \A j \in hits : j <= i][2])

\* the sum s of document d over set(q_terms)
RECURSIVE SumScores(_, _, _, _, _)
SumScores(idx, bm, terms, d, dl) ==
  IF terms = {} THEN [val |-> 0, fine |-> 0]
  ELSE LET t    == CHOOSE t \in terms : TRUE
           rest == SumScores(idx, bm, terms \ {t}, d, dl)
       IN  IF t \notin DOMAIN idx.postings THEN rest
           ELSE LET tf == tf_cache(idx, t, d)
                    ts == TermScore(bm, t, tf, dl)
                IN  IF tf = 0 THEN rest
                    ELSE [val |-> ts.val + rest.val,
                          fine |-> ts.fine + rest.fine]

\* x[1] of one item is larger than x[1] of the other
Higher(s1, s2) ==
  IF s1.nano # s2.nano THEN s2.nano
  ELSE IF s1.val # s2.val THEN s1.val > s2.val
       ELSE s1.fine > s2.fine

\* insertion of one item behind every item that does not score lower
RECURSIVE InsertByScore(_, _)
InsertByScore(done, x) ==
  IF done = <<>> THEN << x >>
  ELSE IF ~Higher(x[2], done[Len(done)][2]) THEN Append(done, x)
       ELSE Append(InsertByScore(SubSeq(done, 1, Len(done) - 1), x),
                   done[Len(done)])

\* sorted(scores.items(), key=lambda x: x[1], reverse=True): stable, so
\* items of equal score stay in the order of the dict
RECURSIVE SortByScore(_)
SortByScore(items) ==
  IF items = <<>> THEN <<>>
  ELSE InsertByScore(SortByScore(SubSeq(items, 1, Len(items) - 1)),
                     items[Len(items)])

\* the dict scores, filled in the order in which the set cand is iterated
RECURSIVE Scores(_, _, _, _)
Scores(idx, bm, terms, order) ==
  IF order = <<>> THEN <<>>
  ELSE LET d  == Head(order)
           dl == idx.doc_len[d]
           s  == SumScores(idx, bm, terms, d, dl)
           rest == Scores(idx, bm, terms, Tail(order))
       IN  IF s.val = 0 THEN rest
           ELSE << << d, [nano |-> Nano(bm, dl), val |-> s.val,
                          fine |-> s.fine] >> >> \o rest

\* the orders in which a set can be iterated
RECURSIVE Orders(_)
Orders(S) ==
  IF S = {} THEN { <<>> }
  ELSE UNION { { << d >> \o o : o \in Orders(S \ {d}) } : d \in S }

\* BM25.score_query(query_text, candidate_docs), with cand iterated in order
score_query(idx, bm, query_text, candidate_docs, order) ==
  LET terms == q_terms(query_text, DEFAULT_STOPWORDS)
  IN  IF terms = <<>> THEN Returned(<<>>)
      ELSE IF \E i \in DOMAIN order : order[i] \notin DOMAIN idx.doc_len
           THEN Raised
           ELSE Returned(SortByScore(Scores(idx, bm, Range(terms), order)))

\* the postings map after self.index.postings[t] on the defaultdict
postings_getitem(p, t) == IF t \in DOMAIN p THEN p ELSE Put(p, t, <<>>)

\* the postings map after the loop over set(q_terms) for one document:
\* terms that are no key are skipped before postings[t] is read
RECURSIVE AfterTfReads(_, _)
AfterTfReads(p, terms) ==
  IF terms = {} THEN p
  ELSE LET t == CHOOSE t \in terms : TRUE
       IN  AfterTfReads(IF t \notin DOMAIN p THEN p
                        ELSE postings_getitem(p, t), terms \ {t})

(***************************************************************************)
(* Inputs: documents.                                                      *)
(***************************************************************************)
\* words a document text is made of, and the sentence mark
DocWords == { <<"x">>, <<"y">>, <<"t","h","e">>, <<"x","'","y">> }
DocItems == DocWords \cup { <<".">> }

\* the items joined by single blanks
RECURSIVE Join(_)
Join(items) ==
  IF items = <<>> THEN <<>>
  ELSE IF Len(items) = 1 THEN Head(items)
       ELSE Head(items) \o <<" ">> \o Join(Tail(items))

\* tokens the index holds (sum of the lengths of all position lists)
RECURSIVE SumLens(_)
SumLens(pl) == IF pl = <<>> THEN 0 ELSE Len(Head(pl)[2]) + SumLens(Tail(pl))

RECURSIVE SumOver(_, _)
SumOver(p, terms) ==
  IF terms = {} THEN 0
  ELSE LET t == CHOOSE t \in terms : TRUE
       IN  SumLens(p[t]) + SumOver(p, terms \ {t})

IndexedTokens == SumOver(postings, DOMAIN postings)

RECURSIVE SumSeq(_)
SumSeq(ns) == IF ns = <<>> THEN 0 ELSE Head(ns) + SumSeq(Tail(ns))

\* the documents <<id, text>>: document i takes the next lens[i] items
DocsOf(ids, lens, items) ==
  [i \in DOMAIN ids |->
     LET off == SumSeq(SubSeq(lens, 1, i - 1))
     IN  << ids[i], Join(SubSeq(items, off + 1, off + lens[i])) >>]

\* the inputs of a build call the index has room for
DocLists ==
  LET room == MaxTokens - IndexedTokens IN
  UNION { UNION { UNION { { DocsOf(ids, lens, items) :
                              items \in [1..SumSeq(lens) -> DocItems] } :
                          lens \in {l \in [1..n -> 0..room] : SumSeq(l) <= room} } :
                  ids \in [1..n -> 1..MaxId] } :
          n \in 0..(MaxDocs - num_docs) }

\* idx.build(docs), called between two operations
Build ==
  /\ call = NoCall
  /\ builds < MaxBuilds
  /\ \E docs \in DocLists :
       LET new == build(Index, docs)
       IN  /\ postings' = new.postings
           /\ doc_len' = new.doc_len
           /\ num_docs' = new.num_docs
           /\ sent_boundaries' = new.sent_boundaries
           /\ call' = [op |-> "build", arg |-> docs]
  /\ builds' = builds + 1
  /\ ret' = Returned(<<>>)
  /\ UNCHANGED bm25

\* the caller takes the result and is ready for the next operation
Return ==
  /\ call # NoCall
  /\ call' = NoCall
  /\ ret' = Returned(<<>>)
  /\ UNCHANGED << postings, doc_len, num_docs, sent_boundaries, builds, bm25 >>

(***************************************************************************)
(* Inputs: queries.                                                        *)
(***************************************************************************)
X == <<"x">>
Y == <<"y">>
\* a term no document holds
Z == <<"z">>
THE == <<"t","h","e">>
XY == <<"x","'","y">>

\* decimal digits of n
RECURSIVE Dec(_)
Dec(n) == IF n < 10 THEN << DigitSeq[n + 1] >>
          ELSE Dec(n \div 10) \o << DigitSeq[(n % 10) + 1] >>

Phrase(terms) == <<"\"">> \o Join(terms) \o <<"\"">>
Paren(q) == <<"(">> \o q \o <<")">>
Within(a, n, b) == Join(<< a, <<"/">> \o Dec(n), b >>)
SameSentence(a, b) == Join(<< a, <<"/","s">>, b >>)
Bin(a, op, b) == Join(<< a, op, b >>)

\* the terms of a call get_postings(term) made while q is evaluated
TermsRead(output) ==
  UNION { LET t == output[i] IN
          IF t.tup THEN { StripQuotes(t.left), StripQuotes(t.right) }
          ELSE IF t.s \in {AND, OR, NOT} THEN {}
          ELSE IF Head(t.s) = "\"" /\ t.s[Len(t.s)] = "\""
               THEN Range(split(StripQuotes(t.s)))
          ELSE { t.s } : i \in DOMAIN output }

RECURSIVE AfterGets(_, _)
AfterGets(p, terms) ==
  IF terms = {} THEN p
  ELSE LET t == CHOOSE t \in terms : TRUE
       IN  AfterGets(postings_after_get(p, t), terms \ {t})

\* evaluate_query(idx, q), called between two operations
EvaluateQuery(q) ==
  /\ call = NoCall
  /\ call' = [op |-> "evaluate_query", arg |-> q]
  /\ LET output == ShuntingYard(PackProx(tokenize_query(q), 1))
     IN  /\ ret' = EvalRPN(Index, output, <<>>)
         /\ postings' = AfterGets(postings, TermsRead(output))
  /\ UNCHANGED << doc_len, num_docs, sent_boundaries, builds, bm25 >>

\* idx.get_postings(term)
GetPostings(term) ==
  /\ call = NoCall
  /\ call' = [op |-> "get_postings", arg |-> term]
  /\ ret' = Returned(get_postings(Index, term))
  /\ postings' = postings_after_get(postings, term)
  /\ UNCHANGED << doc_len, num_docs, sent_boundaries, builds, bm25 >>

\* idx.sentence_boundaries(doc_id)
SentenceBoundaries(doc_id) ==
  /\ call = NoCall
  /\ call' = [op |-> "sentence_boundaries", arg |-> doc_id]
  /\ ret' = Returned(sentence_boundaries(Index, doc_id))
  /\ sent_boundaries' = boundaries_after_get(sent_boundaries, doc_id)
  /\ UNCHANGED << postings, doc_len, num_docs, builds, bm25 >>

\* bm25 = BM25(idx)
NewBM25 ==
  /\ call = NoCall
  /\ call' = [op |-> "BM25", arg |-> <<>>]
  /\ bm25' = BM25(Index)
  /\ ret' = Returned(<<>>)
  /\ UNCHANGED << postings, doc_len, num_docs, sent_boundaries, builds >>

\* bm25.score_query(query_text, candidate_docs): the set cand is iterated
\* in an order the language leaves open
ScoreQuery(query_text, candidate_docs) ==
  /\ call = NoCall
  /\ bm25.made
  /\ call' = [op |-> "score_query", arg |-> << query_text, candidate_docs >>]
  /\ LET terms == q_terms(query_text, DEFAULT_STOPWORDS)
         docs  == cand(Index, terms, candidate_docs)
         gets  == AfterGets(postings, Range(terms))
     IN  /\ \E order \in Orders(docs) :
              ret' = score_query(Index, bm25, query_text, candidate_docs, order)
         /\ postings' = IF docs = {} THEN gets
                        ELSE AfterTfReads(gets, Range(terms))
  /\ UNCHANGED << doc_len, num_docs, sent_boundaries, builds, bm25 >>

Evaluated(q) == call.op = "evaluate_query" /\ call.arg = q

\* every document fed to the index had an id of its own
UniqueIds == num_docs = Cardinality(DOMAIN doc_len)

\* term has position p in document d
OccursAt(term, d, p) ==
  \E i \in DOMAIN Get(postings, term) :
    postings[term][i][1] = d /\ p \in Range(postings[term][i][2])

\* the documents that have a posting for term
DocsWith(term) == _postings_to_docs(Get(postings, term))

(***************************************************************************)
(* Inputs: the demo of run_demo.py.                                        *)
(***************************************************************************)
\* run_demo.py: the texts of DOCS
DemoText1 ==
  << "N","i","g","h","t"," ","v","i","s","u","a","l"," ","a","p","p","r",
     "o","a","c","h"," ","w","i","t","h"," ","u","n","e","x","p","e","c",
     "t","e","d"," ","t","a","i","l","w","i","n","d"," ","l","e","d"," ",
     "t","o"," ","l","o","n","g"," ","l","a","n","d","i","n","g"," ","a",
     "n","d"," ","r","u","n","w","a","y"," ","e","x","c","u","r","s","i",
     "o","n","." >>

DemoText2 ==
  << "C","l","i","m","b","-","o","u","t"," ","i","c","i","n","g"," ","a",
     "f","t","e","r"," ","t","a","k","e","o","f","f",";"," ","p","i","t",
     "o","t"," ","h","e","a","t"," ","o","v","e","r","s","i","g","h","t",
     " ","l","e","d"," ","t","o"," ","a","i","r","s","p","e","e","d"," ",
     "d","i","s","c","r","e","p","a","n","c","i","e","s",";"," ","r","e",
     "t","u","r","n","e","d"," ","t","o"," ","l","a","n","d","." >>

DemoText3 ==
  << "T","a","x","i","w","a","y"," ","i","n","c","u","r","s","i","o","n",
     " ","d","u","e"," ","t","o"," ","s","i","m","i","l","a","r"," ","c",
     "a","l","l"," ","s","i","g","n","s",";"," ","r","e","a","d","b","a",
     "c","k","-","h","e","a","r","b","a","c","k"," ","b","r","e","a","k",
     "d","o","w","n"," ","w","i","t","h"," ","A","T","C","." >>

DemoText4 ==
  << "R","N","A","V"," ","G","P","S"," ","a","p","p","r","o","a","c","h",
     " ","i","n"," ","m","o","u","n","t","a","i","n","o","u","s"," ","t",
     "e","r","r","a","i","n",";"," ","f","a","l","s","e"," ","g","l","i",
     "d","e","p","a","t","h"," ","c","a","p","t","u","r","e",";"," ","C",
     "F","I","T"," ","r","i","s","k"," ","m","i","t","i","g","a","t","e",
     "d"," ","b","y"," ","g","o","-","a","r","o","u","n","d","." >>

DemoText5 ==
  << "L","a","n","d","i","n","g"," ","w","i","t","h"," ","c","r","o","s",
     "s","w","i","n","d"," ","g","u","s","t","s",";"," ","u","n","s","t",
     "a","b","l","e"," ","s","h","o","r","t"," ","f","i","n","a","l",";",
     " ","v","e","e","r","-","o","f","f"," ","a","v","o","i","d","e","d",
     " ","b","y"," ","g","o","-","a","r","o","u","n","d","." >>

\* DOCS.items()
DOCS ==
  << << 1, DemoText1 >>, << 2, DemoText2 >>, << 3, DemoText3 >>,
     << 4, DemoText4 >>, << 5, DemoText5 >> >>

\* run_demo.py: the boolean queries of main
q1 ==
  << "(","\"","r","u","n","w","a","y"," ","e","x","c","u","r","s","i","o",
     "n","\""," ","O","R"," ","o","v","e","r","r","u","n",")"," ","A","N",
     "D"," ","l","a","n","d","i","n","g" >>

q2 ==
  << "(","i","c","i","n","g"," ","/","5"," ","p","i","t","o","t",")"," ",
     "A","N","D"," ","(","a","i","r","s","p","e","e","d"," ","O","R"," ",
     "i","n","d","i","c","a","t","i","o","n","s",")" >>

q3 ==
  << "(","i","n","c","u","r","s","i","o","n"," ","A","N","D"," ","t","a",
     "x","i","w","a","y",")"," ","A","N","D"," ","(","a","t","c"," ","O",
     "R"," ","\"","r","e","a","d","b","a","c","k"," ","h","e","a","r","b",
     "a","c","k","\"",")" >>

q4 ==
  << "(","a","p","p","r","o","a","c","h"," ","A","N","D"," ","m","o","u",
     "n","t","a","i","n","o","u","s",")"," ","/","s"," ","(","c","f","i",
     "t"," ","O","R"," ","t","e","r","r","a","i","n",")" >>

\* words of the demo texts, and one they do not hold
DemoTerms ==
  { << "a","p","p","r","o","a","c","h" >>,
    << "m","o","u","n","t","a","i","n","o","u","s" >>,
    << "c","f","i","t" >>,
    << "t","e","r","r","a","i","n" >>,
    << "l","a","n","d","i","n","g" >>,
    << "i","c","i","n","g" >>,
    << "p","i","t","o","t" >>,
    << "r","u","n","w","a","y" >>,
    << "g","o","-","a","r","o","u","n","d" >>,
    << "o","v","e","r","r","u","n" >> }

\* run_demo.py main: idx = InvertedIndex(); idx.build(DOCS.items())
BuildDemo ==
  /\ call = NoCall
  /\ builds = 0
  /\ LET new == build(Index, DOCS)
     IN  /\ postings' = new.postings
         /\ doc_len' = new.doc_len
         /\ num_docs' = new.num_docs
         /\ sent_boundaries' = new.sent_boundaries
  /\ call' = [op |-> "build", arg |-> DOCS]
  /\ builds' = builds + 1
  /\ ret' = Returned(<<>>)
  /\ UNCHANGED bm25

(***************************************************************************)
(* Specifications.  Each one builds the index from every document list     *)
(* within the bounds and then puts one family of queries to it.            *)
(***************************************************************************)
\* queries with a mistake in them, and a few without
MalformedQueries ==
  { <<>>, <<" ">>, <<"(">>, <<")">>, <<"\"">>, <<"/">>,
    X, Bin(X, AND, Y),
    Join(<< X, AND >>), Join(<< AND, X >>), AND, OR, NOT,
    Join(<< X, OR >>), Join(<< X, NOT >>), Join(<< NOT, X >>),
    Join(<< X, AND, AND, Y >>), Join(<< X, AND, OR, Y >>),
    Join(<< X, OR, NOT, Y >>), Join(<< NOT, NOT >>),
    <<"(">> \o X, X \o <<")">>, <<"(">> \o Bin(X, AND, Y),
    Bin(X, AND, Y) \o <<")">>, <<"(",")">>,
    Join(<< X, <<"/","1">> >>), Join(<< <<"/","1">>, X >>),
    Join(<< X, <<"/","s">>, <<"/","s">> >>),
    Join(<< X, <<"(">>, AND, Y >>) }

EvalMalformed == \E q \in MalformedQueries : EvaluateQuery(q)
NextMalformed == Build \/ Return \/ EvalMalformed
SpecMalformed == Init /\ [][NextMalformed]_vars

\* the words put to the index as one-term queries
QueryWords == DocWords \cup { Z }

\* the tokens the document tokenizer emits and the index keeps
IndexableTerms ==
  { w \in QueryWords : word_tokenize(w) = << w >> /\ w \notin STOPWORDS }

EvalTerm == \E t \in QueryWords : EvaluateQuery(t)
NextTerm == Build \/ Return \/ EvalTerm
SpecTerm == Init /\ [][NextTerm]_vars

\* longest phrase put to the index
MaxPhrase == 3

\* the phrases: every sequence of one or two words, and the longer ones
\* over x and y
PhraseTerms ==
  UNION { [1..k -> {X, Y, THE, XY}] : k \in 1..2 }
    \cup UNION { [1..k -> {X, Y}] : k \in 3..MaxPhrase }

EvalPhrase == \E terms \in PhraseTerms : EvaluateQuery(Phrase(terms))
NextPhrase == Build \/ Return \/ EvalPhrase
SpecPhrase == Init /\ [][NextPhrase]_vars

\* the bare terms used as operands
Terms == { X, Y, Z }

EvalWithin ==
  \E a \in Terms : \E b \in Terms : \E n \in 0..MaxDist :
    EvaluateQuery(Within(a, n, b))
NextWithin == Build \/ Return \/ EvalWithin
SpecWithin == Init /\ [][NextWithin]_vars

EvalSentence ==
  \E a \in Terms : \E b \in Terms : EvaluateQuery(SameSentence(a, b))
NextSentence == Build \/ Return \/ EvalSentence
SpecSentence == Init /\ [][NextSentence]_vars

\* a OR b AND c
OrAnd(a, b, c) == Join(<< a, OR, b, AND, c >>)
\* a AND b NOT c
AndNot(a, b, c) == Join(<< a, AND, b, NOT, c >>)
\* (a OR b) AND c
ParenOrAnd(a, b, c) == Join(<< Paren(Join(<< a, OR, b >>)), AND, c >>)

EvalPrecedence ==
  \E a \in {X, Y} : \E b \in {X, Y} : \E c \in {X, Y} :
    \/ EvaluateQuery(OrAnd(a, b, c))
    \/ EvaluateQuery(AndNot(a, b, c))
    \/ EvaluateQuery(ParenOrAnd(a, b, c))
NextPrecedence == Build \/ Return \/ EvalPrecedence
SpecPrecedence == Init /\ [][NextPrecedence]_vars

\* atoms and parenthesised sub-queries of the grammar
SubQueries ==
  { X, Y, Phrase(<< X, Y >>), Within(X, 1, Y),
    Paren(Bin(X, OR, Y)), Paren(Bin(Y, AND, X)), Paren(Join(<< NOT, Y >>)) }

EvalNot ==
  \E x \in SubQueries : \E y \in SubQueries : EvaluateQuery(Bin(x, NOT, y))
NextNot == Build \/ Return \/ EvalNot
SpecNot == Init /\ [][NextNot]_vars

\* a sample of every kind of query
Queries ==
  { <<>>, X, Z, Bin(X, OR, Y), Bin(X, AND, Y), Bin(X, NOT, Y),
    Phrase(<< X, Y >>), Within(X, 1, Y), SameSentence(X, Y),
    <<"(">> \o Bin(X, OR, Y), Join(<< NOT, X >>), Join(<< X, Y >>) }

EvalAny == \E q \in Queries : EvaluateQuery(q)
Next == Build \/ Return \/ EvalAny
Spec == Init /\ [][Next]_vars

\* reads of the index: terms and document ids, some of them absent
ReadTerms == { X, XY, Z }
ReadIds == 1..(MaxId + 1)
ReadQueries ==
  { Z, Bin(X, OR, Z), Phrase(<< X, Z >>), Within(X, 1, Z),
    SameSentence(X, Y), SameSentence(Z, X) }
ScoreTexts == { <<>>, X, Join(<< X, Z >>), Join(<< THE, Y, X >>), Z }
CandidateLists == { None } \cup { Candidates(c) : c \in SUBSET ReadIds }

EvalRead == \E q \in ReadQueries : EvaluateQuery(q)
NextReads ==
  \/ Build
  \/ Return
  \/ NewBM25
  \/ \E term \in ReadTerms : GetPostings(term)
  \/ \E doc_id \in ReadIds : SentenceBoundaries(doc_id)
  \/ EvalRead
  \/ \E text \in ScoreTexts : \E c \in CandidateLists : ScoreQuery(text, c)
SpecReads == Init /\ [][NextReads]_vars

\* terms put to an index that may not hold them
ProbeTerms == IndexableTerms \cup { Z }
\* the sub-queries an unknown term is joined to
ProbeQueries == { X, Y, Phrase(<< X, Y >>), Paren(Bin(X, OR, Y)) }
\* the query texts an unknown term is appended to
ProbeTexts == { X, Join(<< Y, THE, X >>) }

EvalUnknown ==
  \E x \in ProbeQueries : \E t \in ProbeTerms :
    \/ EvaluateQuery(Bin(x, OR, t))
    \/ EvaluateQuery(Bin(x, AND, t))
NextUnknown ==
  \/ Build
  \/ Return
  \/ NewBM25
  \/ \E t \in ProbeTerms : GetPostings(t)
  \/ EvalUnknown
  \/ \E text \in ProbeTexts : \E t \in ProbeTerms :
       \E c \in { None, Candidates({1}) } : ScoreQuery(Join(<< text, t >>), c)
SpecUnknown == Init /\ [][NextUnknown]_vars

\* the queries of the demo, and two-term queries over its words
DemoQueries ==
  { q1, q2, q3, q4 }
    \cup { Bin(a, op, b) : a \in DemoTerms, b \in DemoTerms,
                           op \in {AND, OR, NOT} }
EvalDemo == \E q \in DemoQueries : EvaluateQuery(q)
NextDemo == BuildDemo \/ Return \/ EvalDemo
SpecDemo == Init /\ [][NextDemo]_vars

\* sub-queries of the grammar: atoms, a parenthesised one, and NOT atom
AndOrQueries ==
  { X, Y, Within(X, 1, Y), Paren(Bin(X, OR, Y)), Join(<< NOT, Y >>) }

EvalAndOr ==
  \E x \in AndOrQueries : \E y \in AndOrQueries :
    \/ EvaluateQuery(Bin(x, AND, y))
    \/ EvaluateQuery(Bin(x, OR, y))
NextAndOr == Build \/ Return \/ EvalAndOr
SpecAndOr == Init /\ [][NextAndOr]_vars

\* NOT as a prefix: at the head of the query, and after a binary operator
AndNotPrefix(a, b) == Join(<< a, AND, NOT, b >>)
OrNotPrefix(a, b) == Join(<< a, OR, NOT, b >>)
AndParenNot(a, b) == Join(<< a, AND, Paren(Join(<< NOT, b >>)) >>)

EvalNotPrefix ==
  \/ \E a \in Terms : EvaluateQuery(Join(<< NOT, a >>))
  \/ \E a \in Terms : \E b \in Terms :
       \/ EvaluateQuery(AndNotPrefix(a, b))
       \/ EvaluateQuery(OrNotPrefix(a, b))
       \/ EvaluateQuery(AndParenNot(a, b))
NextNotPrefix == Build \/ Return \/ EvalNotPrefix
SpecNotPrefix == Init /\ [][NextNotPrefix]_vars

\* a proximity operator between two parenthesised terms: (a) /s (b), (a) /1 (b)
ProxOps == { <<"/","s">>, <<"/","1">>, <<"/","p">> }
ProxParens(a, op, b) == Join(<< Paren(a), op, Paren(b) >>)

EvalProxParens ==
  \E a \in Terms : \E b \in Terms : \E op \in ProxOps :
    EvaluateQuery(ProxParens(a, op, b))
NextProxParens == Build \/ Return \/ EvalProxParens
SpecProxParens == Init /\ [][NextProxParens]_vars

\* a phrase as the operand of a proximity operator: "a b" /n c, c /n "a b"
PhraseProxQueries ==
  { Within(Phrase(<< a, b >>), n, c) : a \in {X, Y}, b \in {X, Y}, c \in Terms,
                                        n \in 1..MaxDist }
    \cup { Within(c, 1, Phrase(<< X, Y >>)) : c \in Terms }
    \cup { SameSentence(Phrase(<< X, Y >>), c) : c \in Terms }

EvalPhraseProx == \E q \in PhraseProxQueries : EvaluateQuery(q)
NextPhraseProx == Build \/ Return \/ EvalPhraseProx
SpecPhraseProx == Init /\ [][NextPhraseProx]_vars

\* q with the character at index i deleted
DeleteAt(q, i) == SubSeq(q, 1, i - 1) \o SubSeq(q, i + 1, Len(q))

\* queries with one closing parenthesis that has no opening one, each with
\* the index of that parenthesis
UnmatchedClose ==
  { [q |-> Join(<< a, OR, b >>) \o <<")", " ">> \o Join(<< AND, c >>),
     at |-> Len(Join(<< a, OR, b >>)) + 1] : a \in {X, Y}, b \in {X, Y},
                                              c \in Terms }
    \cup { [q |-> a \o <<")">>, at |-> Len(a) + 1] : a \in Terms }
    \cup { [q |-> <<")", " ">> \o Join(<< a, AND, b >>), at |-> 1] :
             a \in {X, Y}, b \in {X, Y} }
    \cup { [q |-> Join(<< Paren(Join(<< a, OR, b >>)), AND, c >>) \o <<")">>,
            at |-> Len(Join(<< Paren(Join(<< a, OR, b >>)), AND, c >>)) + 1] :
             a \in {X, Y}, b \in {X, Y}, c \in {X, Y} }

EvalUnmatchedClose ==
  \E u \in UnmatchedClose :
    \/ EvaluateQuery(u.q)
    \/ EvaluateQuery(DeleteAt(u.q, u.at))
NextUnmatchedClose == Build \/ Return \/ EvalUnmatchedClose
SpecUnmatchedClose == Init /\ [][NextUnmatchedClose]_vars

\* queries with one opening parenthesis that has no closing one, each with
\* the index of that parenthesis
UnmatchedOpen ==
  { [q |-> <<"(">> \o Join(<< a, op, b >>), at |-> 1] :
      a \in Terms, b \in Terms, op \in {AND, OR} }
    \cup { [q |-> <<"(">> \o a, at |-> 1] : a \in Terms }
    \cup { [q |-> Join(<< a, op >>) \o <<" ", "(">> \o b,
            at |-> Len(Join(<< a, op >>)) + 2] :
             a \in {X, Y}, b \in {X, Y}, op \in {AND, OR} }

EvalUnmatchedOpen ==
  \E u \in UnmatchedOpen :
    \/ EvaluateQuery(u.q)
    \/ EvaluateQuery(DeleteAt(u.q, u.at))
NextUnmatchedOpen == Build \/ Return \/ EvalUnmatchedOpen
SpecUnmatchedOpen == Init /\ [][NextUnmatchedOpen]_vars

\* most documents of the corpus whose statistics idf is read from
MaxN == 9

\* a corpus of n documents, d of which hold the term x
IdfDocs(n, d) == [i \in 1..n |-> << i, IF i <= d THEN X ELSE Y >>]

\* the index built from such a corpus, and a BM25 object made of it
InitIdf ==
  \E n \in 0..MaxN : \E d \in 0..n :
    LET idx == build(Fresh, IdfDocs(n, d))
    IN  /\ postings = idx.postings
        /\ doc_len = idx.doc_len
        /\ num_docs = idx.num_docs
        /\ sent_boundaries = idx.sent_boundaries
        /\ builds = 1
        /\ bm25 = BM25(idx)
        /\ call = NoCall
        /\ ret = Returned(<<>>)

\* bm25.idf(term)
Idf(term) ==
  /\ call = NoCall
  /\ bm25.made
  /\ call' = [op |-> "idf", arg |-> term]
  /\ ret' = Returned(idf(bm25, term))
  /\ UNCHANGED << postings, doc_len, num_docs, sent_boundaries, builds, bm25 >>

NextIdf == Return \/ \E term \in Terms : Idf(term)
SpecIdf == InitIdf /\ [][NextIdf]_vars

(***************************************************************************)
(* src/main.py: load_jsonl.  A line of the file is a record: blank for a   *)
(* line that is empty after strip(), else the id and the text of the row.  *)
(* An id is a pair: <<"int", n>> for the integer n, <<"str", n>> for a     *)
(* string (the n-th one), <<"none", 0>> for a row without id.              *)
(***************************************************************************)
\* most lines of a file
MaxLines == 3

\* isinstance(rid, int)
IsInt(rid) == rid[1] = "int"

\* the body of the loop of load_jsonl for one line
LoadLine(st, line) ==
  IF line.blank THEN st
  ELSE LET rid == line.id
           text == strip(line.text)
       IN  IF text = <<>> THEN st
           ELSE LET auto_id == IF IsInt(rid) THEN st.auto_id
                               ELSE st.auto_id + 1
                    did == IF IsInt(rid) THEN rid[2] ELSE auto_id
                    m == IF rid[1] = "str" THEN << rid >> ELSE <<>>
                IN  [ docs    |-> Put(st.docs, did, text),
                      meta    |-> Put(st.meta, did, m),
                      auto_id |-> auto_id ]

RECURSIVE LoadLines(_, _)
LoadLines(st, lines) ==
  IF lines = <<>> THEN st
  ELSE LoadLines(LoadLine(st, Head(lines)), Tail(lines))

\* load_jsonl(path) on the lines of the file: <<docs, meta>>
load_jsonl(lines) ==
  LET st == LoadLines([docs |-> EmptyMap, meta |-> EmptyMap, auto_id |-> 0],
                      lines)
  IN  << st.docs, st.meta >>

\* load_jsonl(path)
LoadJsonl(lines) ==
  /\ call = NoCall
  /\ call' = [op |-> "load_jsonl", arg |-> lines]
  /\ ret' = Returned(load_jsonl(lines))
  /\ UNCHANGED << postings, doc_len, num_docs, sent_boundaries, builds, bm25 >>

\* the lines a file is made of
JsonIds == { << "int", i >> : i \in 1..MaxId } \cup { << "str", 1 >>, << "none", 0 >> }
JsonTexts == { <<>>, << " " >>, X, Y }
JsonLines ==
  { [blank |-> TRUE, id |-> << "none", 0 >>, text |-> <<>>] }
    \cup { [blank |-> FALSE, id |-> i, text |-> t] : i \in JsonIds, t \in JsonTexts }
JsonFiles == UNION { [1..n -> JsonLines] : n \in 0..MaxLines }

NextLoad == Return \/ \E lines \in JsonFiles : LoadJsonl(lines)
SpecLoad == Init /\ [][NextLoad]_vars

(***************************************************************************)
(* Properties.                                                             *)
(***************************************************************************)
\* C1: evaluate_query never raises: a malformed query (unbalanced
\* parentheses, a dangling or lone operator, two operators in a row)
\* returns a list of document ids.
C1_NeverRaises == call.op = "evaluate_query" => ~ret.raised

\* C2: for every term the index can hold, the query made of that term alone
\* returns exactly the ids of the documents that have a posting for it (no
\* id for a term without postings).
C2_TermQuery ==
  \A t \in IndexableTerms \cup { Z } :
    Evaluated(t) => ~ret.raised /\ Range(ret.val) = DocsWith(t)

\* the documents in which terms[1], ..., terms[k] stand at p, ..., p+k-1
PhraseDocs(terms) ==
  { d \in DOMAIN doc_len :
      \E p \in 0..(doc_len[d] - 1) :
        \A i \in DOMAIN terms : OccursAt(terms[i], d, p + i - 1) }

\* C3: on an index of documents with unique ids, the phrase query
\* "t1 ... tk" returns document d exactly when t1, ..., tk stand at
\* consecutive positions p, ..., p+k-1 of d (positions count retained
\* tokens only); a phrase may repeat a term.
C3_Phrase ==
  \A terms \in PhraseTerms :
    (Evaluated(Phrase(terms)) /\ UniqueIds)
      => ~ret.raised /\ Range(ret.val) = PhraseDocs(terms)

\* a phrase of three terms that repeats a term matched a document
C3_Witness ==
  /\ UniqueIds
  /\ num_docs = 2
  /\ \E terms \in PhraseTerms :
       /\ Len(terms) = 3
       /\ terms[1] = terms[3]
       /\ Evaluated(Phrase(terms))
       /\ ret.val # <<>>
       /\ Len(ret.val) < num_docs

\* the documents in which a and b stand within distance n
WithinDocs(a, b, n) ==
  { d \in DOMAIN doc_len :
      \E x \in 0..(doc_len[d] - 1) : \E y \in 0..(doc_len[d] - 1) :
        OccursAt(a, d, x) /\ OccursAt(b, d, y) /\ Abs(x - y) <= n }

\* C4: for terms a, b and n >= 0, the query a /n b returns exactly the
\* documents in which a position x of a and a position y of b have
\* |x - y| <= n, and b /n a returns the same documents.
C4_Within ==
  \A a \in Terms : \A b \in Terms : \A n \in 0..MaxDist :
    (Evaluated(Within(a, n, b)) /\ UniqueIds)
      => /\ ~ret.raised
         /\ Range(ret.val) = WithinDocs(a, b, n)
         /\ evaluate_query(Index, Within(b, n, a)) = ret

\* x /n y matched a document that it does not match for a smaller n
C4_Witness ==
  /\ UniqueIds
  /\ \E n \in 1..MaxDist :
       /\ Evaluated(Within(X, n, Y))
       /\ ret.val # <<>>
       /\ evaluate_query(Index, Within(X, n - 1, Y)).val = <<>>

\* the documents with a sentence boundary that holds a and b
SentenceDocs(a, b) ==
  { d \in DOMAIN sent_boundaries :
      \E k \in DOMAIN sent_boundaries[d] :
        LET s == sent_boundaries[d][k][1]
            e == sent_boundaries[d][k][2]
        IN  /\ \E x \in s..e : OccursAt(a, d, x)
            /\ \E y \in s..e : OccursAt(b, d, y) }

\* C5: for terms a and b, the query a /s b returns exactly the documents
\* that have a recorded sentence boundary (start, end) with a position of a
\* and a position of b in start..end.
C5_SameSentence ==
  \A a \in Terms : \A b \in Terms :
    (Evaluated(SameSentence(a, b)) /\ UniqueIds)
      => ~ret.raised /\ Range(ret.val) = SentenceDocs(a, b)

\* x /s y matched one document and left out another that holds x and y in
\* two sentences
C5_Witness ==
  /\ UniqueIds
  /\ Evaluated(SameSentence(X, Y))
  /\ \E d \in DocsWith(X) \cap DocsWith(Y) : d \notin Range(ret.val)

\* C6: NOT binds tighter than AND, AND tighter than OR, parentheses
\* override: a OR b AND c is docs(a) + (docs(b) & docs(c)), a AND b NOT c is
\* docs(a) & (docs(b) - docs(c)), (a OR b) AND c is
\* (docs(a) + docs(b)) & docs(c).
C6_Precedence ==
  \A a \in {X, Y} : \A b \in {X, Y} : \A c \in {X, Y} :
    /\ Evaluated(OrAnd(a, b, c)) =>
         /\ ~ret.raised
         /\ Range(ret.val) = DocsWith(a) \cup (DocsWith(b) \cap DocsWith(c))
    /\ Evaluated(AndNot(a, b, c)) =>
         /\ ~ret.raised
         /\ Range(ret.val) = DocsWith(a) \cap (DocsWith(b) \ DocsWith(c))
    /\ Evaluated(ParenOrAnd(a, b, c)) =>
         /\ ~ret.raised
         /\ Range(ret.val) = (DocsWith(a) \cup DocsWith(b)) \cap DocsWith(c)

\* a OR b AND c returned a document that (a OR b) AND c does not return
C6_Witness ==
  \E a \in {X, Y} : \E b \in {X, Y} : \E c \in {X, Y} :
    /\ Evaluated(OrAnd(a, b, c))
    /\ Range(ret.val) # (DocsWith(a) \cup DocsWith(b)) \cap DocsWith(c)

\* C7: for atoms or parenthesised sub-queries X and Y, the query X NOT Y
\* returns exactly the result of X without the result of Y.
C7_NotIsDifference ==
  \A x \in SubQueries : \A y \in SubQueries :
    Evaluated(Bin(x, NOT, y))
      => /\ ~ret.raised
         /\ Range(ret.val) = Range(evaluate_query(Index, x).val)
                               \ Range(evaluate_query(Index, y).val)

ReadOps == { "get_postings", "sentence_boundaries", "evaluate_query",
             "score_query" }

\* C9: no read operation changes the index: a call of get_postings,
\* sentence_boundaries, evaluate_query or BM25 score_query, with terms or
\* document ids the index holds or not, leaves the postings map (keys and
\* lists), doc_len, num_docs and the sentence boundaries as they were.
C9_ReadsLeaveIndex ==
  [][ call'.op \in ReadOps =>
        /\ postings' = postings
        /\ doc_len' = doc_len
        /\ num_docs' = num_docs
        /\ sent_boundaries' = sent_boundaries ]_vars

\* after a build, a text with a term the index does not hold was scored
\* and a document came back
C9_Witness ==
  /\ builds > 0
  /\ call.op = "score_query"
  /\ \E t \in Range(q_terms(call.arg[1], DEFAULT_STOPWORDS)) :
       t \notin DOMAIN postings
  /\ ~ret.raised
  /\ ret.val # <<>>

\* the ids of the documents of docs whose retained tokens include term
DocsContaining(docs, term) ==
  { docs[i][1] : i \in { j \in DOMAIN docs :
                           term \in Range(preprocess(docs[j][2])[1]) } }

\* the build call just made was the first one and its documents had ids of
\* their own
SingleBuild ==
  /\ call.op = "build"
  /\ builds = 1
  /\ \A i \in DOMAIN call.arg : \A j \in DOMAIN call.arg :
       call.arg[i][1] = call.arg[j][1] => i = j

\* C10: after a single build over documents with unique ids, every term of
\* the postings map has a non-empty posting list in strictly ascending
\* order of document id, with exactly one posting for each document that
\* contains the term.
C10_PostingLists ==
  SingleBuild =>
    \A term \in DOMAIN postings :
      LET pl == postings[term] IN
      /\ Len(pl) > 0
      /\ \A i \in DOMAIN pl : \A j \in DOMAIN pl : i < j => pl[i][1] < pl[j][1]
      /\ _postings_to_docs(pl) = DocsContaining(call.arg, term)

\* a term of two documents that were handed over in descending id order
C10_Witness ==
  /\ SingleBuild
  /\ Len(call.arg) = 2
  /\ call.arg[1][1] > call.arg[2][1]
  /\ \E term \in DOMAIN postings : Len(postings[term]) = 2
  /\ \E term \in DOMAIN postings : Len(postings[term]) = 1

\* the position lists of document d: <<term, list>> for every posting of d
PositionLists(d) ==
  { << t, postings[t][i][2] >> :
      << t, i >> \in { ti \in (DOMAIN postings) \X (1..(MaxDocs * MaxBuilds)) :
                         /\ ti[2] \in DOMAIN postings[ti[1]]
                         /\ postings[ti[1]][ti[2]][1] = d } }

\* C11: after a single build over documents with unique ids, the position
\* lists of every document d are each strictly ascending, pairwise disjoint
\* across terms, and together make up 0 .. doc_len[d]-1: no gap is left
\* where a stopword was removed.
C11_DensePositions ==
  SingleBuild =>
    \A d \in DOMAIN doc_len :
      LET lists == PositionLists(d) IN
      /\ \A l \in lists : \A i \in DOMAIN l[2] : \A j \in DOMAIN l[2] :
           i < j => l[2][i] < l[2][j]
      /\ \A l \in lists : \A m \in lists :
           l[1] # m[1] => Range(l[2]) \cap Range(m[2]) = {}
      /\ UNION { Range(l[2]) : l \in lists } = 0..(doc_len[d] - 1)

\* a document with a stopword and two retained terms was indexed
C11_Witness ==
  /\ SingleBuild
  /\ \E k \in DOMAIN call.arg :
       /\ \E i \in 1..(Len(call.arg[k][2]) - 2) :
            SubSeq(call.arg[k][2], i, i + 2) = THE
       /\ doc_len[call.arg[k][1]] = 2
       /\ Cardinality(PositionLists(call.arg[k][1])) = 2

\* C12: after build, the sentence boundaries of every document d are
\* contiguous and cover exactly doc_len[d] positions: the first starts at
\* 0, each later one starts one past the end of the one before, and the
\* last ends at doc_len[d]-1.
C12_Boundaries ==
  \A d \in DOMAIN doc_len :
    /\ d \in DOMAIN sent_boundaries
    /\ LET bs == sent_boundaries[d] IN
       /\ bs # <<>> =>
            /\ bs[1][1] = 0
            /\ bs[Len(bs)][2] = doc_len[d] - 1
       /\ \A k \in 2..Len(bs) : bs[k][1] = bs[k - 1][2] + 1
       /\ SumSeq([k \in DOMAIN bs |-> bs[k][2] - bs[k][1] + 1]) = doc_len[d]

\* a document of two sentences with a token each was indexed
C12_Witness ==
  /\ call.op = "build"
  /\ \E d \in DOMAIN sent_boundaries :
       /\ Len(sent_boundaries[d]) = 2
       /\ doc_len[d] = 2
       /\ sent_boundaries[d][1][2] = 0

\* C13: for every term t without postings, get_postings(t) returns the
\* empty list, the query X OR t returns what X returns, X AND t returns
\* the empty list, and scoring a text with t appended returns the list the
\* text without t gets.
C13_UnknownTerm ==
  \A t \in { u \in ProbeTerms : u \notin DOMAIN postings } :
    /\ (call.op = "get_postings" /\ call.arg = t) => ret = Returned(<<>>)
    /\ \A x \in ProbeQueries :
         /\ Evaluated(Bin(x, OR, t)) => ret = evaluate_query(Index, x)
         /\ Evaluated(Bin(x, AND, t)) => ret = Returned(<<>>)
    /\ \A text \in ProbeTexts : \A c \in { None, Candidates({1}) } :
         (call.op = "score_query" /\ call.arg = << Join(<< text, t >>), c >>)
           => /\ ret \in { score_query(Index, bm25, text, c, o) :
                             o \in Orders(cand(Index,
                                   q_terms(text, DEFAULT_STOPWORDS), c)) }
              /\ \A o \in Orders(cand(Index,
                                 q_terms(Join(<< text, t >>),
                                         DEFAULT_STOPWORDS), c)) :
                   score_query(Index, bm25, Join(<< text, t >>), c, o)
                     = score_query(Index, bm25, text, c, o)

\* the call just made scored query text for the given candidate documents
ScoredFor(text, docs) ==
  call.op = "score_query" /\ call.arg = << text, Candidates(docs) >>

\* C14: when scoring is given a candidate set, every returned id is in the
\* candidate set and has a posting for a query term, no id comes twice,
\* and the scores do not increase along the list.
C14_CandidatesOnly ==
  \A text \in ScoreTexts : \A docs \in SUBSET ReadIds :
    ScoredFor(text, docs) =>
      /\ ~ret.raised
      /\ \A i \in DOMAIN ret.val :
           /\ ret.val[i][1] \in docs
           /\ \E t \in Range(q_terms(text, DEFAULT_STOPWORDS)) :
                ret.val[i][1] \in DocsWith(t)
      /\ \A i \in DOMAIN ret.val : \A j \in DOMAIN ret.val :
           i < j => /\ ret.val[i][1] # ret.val[j][1]
                    /\ ~Higher(ret.val[j][2], ret.val[i][2])

\* a text was scored for candidates that leave out a document of a query
\* term, and a document came back
C14_Witness ==
  \E text \in ScoreTexts : \E docs \in SUBSET ReadIds :
    /\ ScoredFor(text, docs)
    /\ ret.val # <<>>
    /\ \E t \in Range(q_terms(text, DEFAULT_STOPWORDS)) :
         DocsWith(t) \ docs # {}

\* C15: in the list returned by scoring, two documents of equal score
\* stand in ascending order of document id, in whatever order the
\* candidate set is iterated.
C15_TieBreak ==
  (call.op = "score_query" /\ ~ret.raised) =>
    \A i \in DOMAIN ret.val : \A j \in DOMAIN ret.val :
      (i < j /\ ret.val[i][2] = ret.val[j][2]) => ret.val[i][1] < ret.val[j][1]

\* C16: the N, df and average document length that a scoring call uses for
\* the scores it returns are num_docs, the lengths of the posting lists and the mean document length
\* of the index at the time of the call, whatever builds and constructions
\* came before.
C16_FreshStatistics ==
  (call.op = "score_query" /\ ~ret.raised /\ ret.val # <<>>) =>
    /\ bm25.N = num_docs
    /\ \A t \in DOMAIN postings :
         (IF t \in DOMAIN bm25.df THEN bm25.df[t] ELSE 0) = Len(postings[t])
    /\ bm25.sumdl = SumValues(doc_len, DOMAIN doc_len)

\* the index holds the demo corpus
DemoIndex == builds = 1 /\ num_docs = Len(DOCS)

\* C17: on the five documents of the demo, the query
\* (approach AND mountainous) /s (cfit OR terrain) returns exactly [4].
C17_DemoQuery ==
  (DemoIndex /\ Evaluated(q4)) => ret = Returned(<< 4 >>)

\* the query was put to the demo index
C17_Witness == DemoIndex /\ Evaluated(q4) /\ DOMAIN doc_len = 1..5

\* C18: for sub-queries X and Y of the grammar, on any corpus, what
\* X AND Y returns is among what X OR Y returns.
C18_AndWithinOr ==
  \A x \in AndOrQueries : \A y \in AndOrQueries :
    Evaluated(Bin(x, AND, y)) =>
      LET either == evaluate_query(Index, Bin(x, OR, y))
      IN  /\ ~ret.raised
          /\ ~either.raised
          /\ Range(ret.val) \subseteq Range(either.val)

\* C19: the query NOT a, which starts with NOT and has no left operand,
\* returns the empty list for every term a, on every corpus, without
\* raising.
C19_LeadingNot ==
  \A a \in Terms : Evaluated(Join(<< NOT, a >>)) => ret = Returned(<<>>)

\* NOT x was put to an index that holds x
C19_Witness ==
  /\ Evaluated(Join(<< NOT, X >>))
  /\ DocsWith(X) # {}
  /\ ~ret.raised

\* C20: X AND NOT Y, X OR NOT Y and X AND (NOT Y) are evaluated without
\* error, and X AND NOT Y returns the documents of X that are no documents
\* of Y.
C20_NotAfterOperator ==
  \A a \in Terms : \A b \in Terms :
    /\ Evaluated(AndNotPrefix(a, b)) =>
         /\ ~ret.raised
         /\ Range(ret.val) = DocsWith(a) \ DocsWith(b)
    /\ Evaluated(OrNotPrefix(a, b)) => ~ret.raised
    /\ Evaluated(AndParenNot(a, b)) => ~ret.raised

\* C21: when a proximity operator stands between parenthesised
\* sub-expressions, (X) /s (Y) or (X) /n (Y), every returned document is in
\* the result of X and in the result of Y.
C21_ProxBetweenParens ==
  \A a \in Terms : \A b \in Terms : \A op \in ProxOps :
    Evaluated(ProxParens(a, op, b)) =>
      /\ ~ret.raised
      /\ Range(ret.val) \subseteq
           Range(evaluate_query(Index, a).val)
             \cap Range(evaluate_query(Index, b).val)

\* C22: a proximity atom may take a phrase of several words as operand: for
\* "a b" /n c, a document in which a and b stand at consecutive positions
\* and c stands within n positions of them is returned.
C22_PhraseOperand ==
  \A a \in {X, Y} : \A b \in {X, Y} : \A c \in Terms : \A n \in 1..MaxDist :
    (Evaluated(Within(Phrase(<< a, b >>), n, c)) /\ UniqueIds) =>
      /\ ~ret.raised
      /\ \A d \in DOMAIN doc_len :
           (\E p \in 0..(doc_len[d] - 2) : \E y \in 0..(doc_len[d] - 1) :
              /\ OccursAt(a, d, p) /\ OccursAt(b, d, p + 1)
              /\ OccursAt(c, d, y)
              /\ (Abs(y - p) <= n \/ Abs(y - (p + 1)) <= n))
             => d \in Range(ret.val)

\* C23: a closing parenthesis without an opening one is ignored: the query
\* evaluates, without raising, to the result of the same query with that
\* parenthesis deleted (a OR b) AND c as a OR b AND c).
C23_UnmatchedCloseIgnored ==
  \A u \in UnmatchedClose :
    Evaluated(u.q) =>
      /\ ~ret.raised
      /\ ret = evaluate_query(Index, DeleteAt(u.q, u.at))

\* C24: an opening parenthesis without a closing one only delays the
\* operators inside it: the query (a AND b does not raise, the pending
\* operators are applied when the stack is drained, and the result is that
\* of the same query with that parenthesis deleted.
C24_UnmatchedOpenDrained ==
  \A u \in UnmatchedOpen :
    Evaluated(u.q) =>
      /\ ~ret.raised
      /\ ret = evaluate_query(Index, DeleteAt(u.q, u.at))

\* the index of the document doc alone
Alone(doc) == IndexDoc(Fresh, doc)

\* the number of postings of the list pl that carry the id d
PostingsFor(pl, d) == Cardinality({ i \in DOMAIN pl : pl[i][1] = d })

\* the last document of docs that has the id d
LastWithId(docs, d) ==
  docs[CHOOSE k \in DOMAIN docs :
         /\ docs[k][1] = d
         /\ \A j \in DOMAIN docs : docs[j][1] = d => j <= k]

\* C25: when documents with the same id are indexed, within one build call
\* or across two, doc_len and the sentence boundaries of that id are those
\* of the later document, and the postings are not deduplicated: every
\* document adds a posting with that id for each of its terms.
C25_DuplicateIds ==
  [][ (call.op = "none" /\ call'.op = "build") =>
        LET docs == call'.arg IN
        \A k \in DOMAIN docs :
          LET d == docs[k][1]
              last == Alone(LastWithId(docs, d))
          IN  /\ doc_len'[d] = last.doc_len[d]
              /\ sent_boundaries'[d] = last.sent_boundaries[d]
              /\ \A t \in DOMAIN postings' :
                   PostingsFor(postings'[t], d) =
                     PostingsFor(Get(postings, t), d)
                       + Cardinality({ j \in DOMAIN docs :
                                         /\ docs[j][1] = d
                                         /\ t \in DOMAIN Alone(docs[j]).postings })
    ]_vars

\* a second build brought a shorter document under an id the index had: a
\* term has two postings with that id, and a position of the earlier
\* document lies beyond the recorded length
C25_Witness ==
  /\ builds = 2
  /\ call.op = "build"
  /\ \E t \in DOMAIN postings : \E i \in DOMAIN postings[t] :
       \E j \in DOMAIN postings[t] :
         /\ i < j
         /\ postings[t][i][1] = postings[t][j][1]
         /\ postings[t][i][1] = call.arg[1][1]
  /\ \E t \in DOMAIN postings : \E i \in DOMAIN postings[t] :
       \E p \in Range(postings[t][i][2]) : p >= doc_len[postings[t][i][1]]

\* C26: segmenting an empty or whitespace-only text yields no sentences: the
\* per-sentence token list is empty, not a list that holds one empty
\* sentence, so a document with such a text has an empty list of sentence
\* boundaries in the index.
C26_EmptyText ==
  call.op = "build" =>
    \A k \in DOMAIN call.arg :
      LET d == call.arg[k][1]
          text == LastWithId(call.arg, d)[2]
      IN  strip(text) = <<>> =>
            /\ sent_tokenize(text) = <<>>
            /\ preprocess(text)[2] = <<>>
            /\ sent_boundaries[d] = <<>>

\* C27: every sentence boundary (start, end) recorded for a document d is a
\* non-empty inclusive range inside the document,
\* 0 <= start <= end <= doc_len[d] - 1, also for a sentence whose tokens are
\* all stopwords.
C27_BoundaryRanges ==
  \A d \in DOMAIN sent_boundaries :
    \A k \in DOMAIN sent_boundaries[d] :
      LET start == sent_boundaries[d][k][1]
          end == sent_boundaries[d][k][2]
      IN  0 <= start /\ start <= end /\ end <= doc_len[d] - 1

\* the text with the words that are stopwords taken out
WithoutStopwords(text) ==
  Join(SelectSeq(split(text), LAMBDA w : lower(w) \notin STOPWORDS))

\* the documents with their stopwords taken out
Stripped(docs) ==
  [k \in DOMAIN docs |-> << docs[k][1], WithoutStopwords(docs[k][2]) >>]

\* the phrase queries and the a /n b queries
PhraseAndWithin ==
  { Phrase(terms) : terms \in PhraseTerms }
    \cup { Within(a, n, b) : a \in Terms, b \in Terms, n \in 0..MaxDist }

\* x the y, the text of a document
XTheY == Join(<< X, THE, Y >>)

\* C28: stopwords of a document are invisible to phrase and proximity
\* matching: documents that differ only by stopwords between the same
\* retained tokens give the same result for every phrase query and every
\* /n query, and the phrase "w1 w2" matches a document whose text is
\* w1 the w2.
C28_StopwordsInvisible ==
  (call.op = "build" /\ builds = 1) =>
    /\ \A q \in PhraseAndWithin :
         evaluate_query(Index, q)
           = evaluate_query(build(Fresh, Stripped(call.arg)), q)
    /\ \A k \in DOMAIN call.arg :
         (UniqueIds /\ call.arg[k][2] = XTheY) =>
           call.arg[k][1] \in Range(evaluate_query(Index, Phrase(<< X, Y >>)).val)

\* the index was built from a document with the text x the y, and the
\* phrase "x y" matches it
C28_Witness ==
  /\ call.op = "build"
  /\ builds = 1
  /\ call.arg = << << 1, XTheY >> >>
  /\ evaluate_query(Index, Phrase(<< X, Y >>)) = Returned(<< 1 >>)

\* the cached df of term
DfOf(bm, term) == IF term \in DOMAIN bm.df THEN bm.df[term] ELSE 0

\* C29: for a fixed document count N, idf is strictly decreasing in df over
\* 0 <= df <= N, and idf is greater than 0 for every such df.
C29_IdfDecreasing ==
  call.op = "idf" =>
    /\ DfOf(bm25, call.arg) <= bm25.N
    /\ ret.val > 0
    /\ \A df \in 0..bm25.N :
         LET other == idf([bm25 EXCEPT !.df = Put(bm25.df, call.arg, df)],
                          call.arg)
         IN  /\ df > DfOf(bm25, call.arg) => other < ret.val
             /\ df < DfOf(bm25, call.arg) => other > ret.val

\* idf was read for a term that every one of MaxN documents holds
C29_Witness ==
  /\ call.op = "idf"
  /\ bm25.N = MaxN
  /\ DfOf(bm25, call.arg) = MaxN
  /\ ret.val > 0

\* the lines of the file that are rows with a text
RowsWithText(lines) ==
  { k \in DOMAIN lines : ~lines[k].blank /\ strip(lines[k].text) # <<>> }

\* the integer ids of the file are pairwise distinct
DistinctIntIds(lines) ==
  \A j \in DOMAIN lines : \A k \in DOMAIN lines :
    (j # k /\ ~lines[j].blank /\ ~lines[k].blank
       /\ IsInt(lines[j].id) /\ IsInt(lines[k].id))
      => lines[j].id # lines[k].id

\* C30: load_jsonl loses no document: for a file whose integer ids are
\* pairwise distinct, the returned map has one entry per line with a
\* non-empty text (a row given an automatic id never gets an id that
\* another row has or is given later).
C30_NoDocumentLost ==
  (call.op = "load_jsonl" /\ DistinctIntIds(call.arg)) =>
    Cardinality(DOMAIN ret.val[1]) = Cardinality(RowsWithText(call.arg))
====
